---- MODULE Spec2Model ----
(***************************************************************************)
(* Model of the auto-merge action (src/src/main.ts): one run of run(),     *)
(* from the event dispatch to the end of the run or its failure.  The run  *)
(* is a single thread of control that suspends at each remote call; every  *)
(* action below is the remote's answer to the pending call with the code    *)
(* that runs from there to the next suspension point, or one step of a     *)
(* loop.  The remote is not trusted: every answer is drawn anew from the   *)
(* bounded sets below.                                                     *)
(***************************************************************************)
EXTENDS Integers, Sequences, FiniteSets, TLC

\* ------------------------------------------------------------------ bounds
\* Longest check_run.pull_requests array of a payload.
MaxCheckPrs == 2
\* Most entries the pages of one listing hold together.
MaxListed == 2

\* ------------------------------------------------------------- value sets
Null == "null"
Undefined == "undefined"

RepoUrl == "https://github.com/owner/repo"
ForkUrl == "https://github.com/fork/repo"

PrNumbers == {1, 2}
Branches == {"main", "dev"}

BulkEvents == {"branch_protection_rule", "push", "schedule", "workflow_dispatch"}
UnsupportedEvents == {"pull_request", "pull_request_review", "status", "issues"}

\* String.prototype.toLowerCase on the strings of the model.
ToLowerCase(s) ==
    CASE s = "Ready" -> "ready"
      [] s = "Approved" -> "approved"
      [] s = " Approved " -> " approved "
      [] s = "Alice" -> "alice"
      [] s = "TRUE" -> "true"
      [] OTHER -> s

\* String.prototype.trim on the strings of the model.
Trim(s) ==
    CASE s = " Approved " -> "Approved"
      [] s = " approved " -> "approved"
      [] s = " " -> ""
      [] OTHER -> s

\* getInput(name).split(/[\r\n,;]+/g): the model takes the input already cut
\* at its separators; an unset input is the one empty piece.
\* .map(it => it.trim().toLowerCase()).filter(it => it.length)
RECURSIVE ParseList(_)
ParseList(pieces) ==
    IF pieces = <<>> THEN <<>>
    ELSE LET it == ToLowerCase(Trim(Head(pieces)))
         IN  IF it # "" THEN <<it>> \o ParseList(Tail(pieces))
             ELSE ParseList(Tail(pieces))

RequiredLabelsInputs == {<<"">>, <<"Ready", " Approved ">>}
AuthorsInputs == {<<"">>, <<"Alice", " ">>}
PreferredMergeOptionInputs == {"", "squash"}
DryRunInputs == {"", "TRUE"}

Range(s) == {s[i] : i \in DOMAIN s}

VARIABLES
    requiredLabels,        \* const requiredLabels
    authors,               \* const authors
    preferredMergeOption,  \* const preferredMergeOption
    dryRun,                \* const dryRun
    context,               \* @actions/github context: eventName, runId, payload
    pc,                    \* where the run is
    todo,                  \* what the running for-loop has still to visit
    page,                  \* the page of the open-PR list being visited
    listed,                \* every entry the pages have held so far, in order
    pr,                    \* const pr of processPr, from its assignment until the
                           \* caller goes on; NoPr otherwise
    cache,                 \* doesBranchHaveRequiredChecksCache
    branchData,            \* what repos.getBranch answered with, in the step that
                           \* receives it; NoBranch otherwise
    inflight,              \* remote calls issued and not yet answered
    calls,                 \* every remote call issued so far, in order, without the
                           \* sha a merge call carried
    processed,             \* the PRs whose `Processing PR #n` group was opened, in order
    announced,             \* the PRs whose `Merging PR #n` was written, in order
    log                    \* core.warning / debug / setFailed output of the group
                           \* that is open, or of run() when no group was opened yet

config == <<requiredLabels, authors, preferredMergeOption, dryRun>>
vars == <<requiredLabels, authors, preferredMergeOption, dryRun, context, pc,
          todo, page, listed, pr, cache, branchData, inflight, calls, processed,
          announced, log>>

NoPr == [number |-> 0]
EmptyCache == [b \in {} |-> FALSE]
NoPage == [number |-> 0, next |-> FALSE]
NoBranch == [enabled |-> FALSE, checks |-> Undefined]

\* ------------------------------------------------------------- snapshots
\* The fields of a pull request that processPr reads.  An open PR of Alice's
\* from a branch of the repository itself, fully labelled, onto main:
OrdinaryPr(n, mergeable) ==
    [number |-> n, base_repo |-> RepoUrl, head_repo |-> RepoUrl,
     merged_at |-> Null, auto_merge |-> Null, draft |-> FALSE,
     labels |-> {"Ready", "approved"}, user |-> "Alice", mergeable |-> mergeable,
     base_ref |-> "main", head_sha |-> "sha-a"]

\* What a PR may have that the ordinary one has not.
Oddities ==
    {<<"head_repo", ForkUrl>>, <<"head_repo", Null>>,
     <<"merged_at", "2024-05-01T10:00:00Z">>, <<"auto_merge", "enabled">>,
     <<"draft", TRUE>>, <<"labels", {"Ready"}>>,
     <<"user", "bob">>, <<"user", Null>>,
     <<"base_ref", "dev">>, <<"head_sha", "sha-b">>}

\* pulls.get answers with a pull-request object: mergeable is true, false or null.
MergeableOddities == {<<"mergeable", "false">>, <<"mergeable", Null>>}

With(p, oddity) == [p EXCEPT ![oddity[1]] = oddity[2]]

\* The snapshots the remote answers with: any two oddities at once.
Snapshots(p, oddities) ==
    {p} \cup {With(p, o) : o \in oddities}
        \cup {With(With(p, o1), o2) : o1 \in oddities, o2 \in oddities}

\* pulls.list answers with pull-request-simple objects: no mergeable field.
ListSnapshotsByNumber == [n \in PrNumbers |-> Snapshots(OrdinaryPr(n, Undefined), Oddities)]
ListSnapshots(n) == ListSnapshotsByNumber[n]
GetSnapshotsByNumber ==
    [n \in PrNumbers |-> Snapshots(OrdinaryPr(n, "true"), Oddities \cup MergeableOddities)]
GetSnapshots(n) == GetSnapshotsByNumber[n]

\* ----------------------------------------------------------------- events
CheckRunPayloads ==
    {[id |-> id, action |-> a, conclusion |-> c, pull_requests |-> prs, state |-> ""] :
        id \in {1, 2}, a \in {"completed", "rerequested"},
        c \in {"success", "skipped", "failure", Null},
        prs \in UNION {[1..k -> PrNumbers] : k \in 0..MaxCheckPrs}}

DeploymentStatusPayloads ==
    {[id |-> 0, action |-> "created", conclusion |-> Null, pull_requests |-> <<>>, state |-> s] :
        s \in {"success", "failure", "pending"}}

NoPayload == [id |-> 0, action |-> "", conclusion |-> Null, pull_requests |-> <<>>, state |-> ""]

Contexts ==
         {[eventName |-> e, runId |-> 1, payload |-> NoPayload] :
              e \in BulkEvents \cup UnsupportedEvents}
    \cup {[eventName |-> "check_run", runId |-> 1, payload |-> p] : p \in CheckRunPayloads}
    \cup {[eventName |-> "deployment_status", runId |-> 1, payload |-> p] :
              p \in DeploymentStatusPayloads}

\* ------------------------------------------------------------ remote calls
ListCall(n) == [op |-> "list", pull_number |-> 0, branch |-> "", page |-> n,
                sha |-> "", merge_method |-> ""]
GetCall(n) == [op |-> "get", pull_number |-> n, branch |-> "", page |-> 0,
               sha |-> "", merge_method |-> ""]
GetBranchCall(b) == [op |-> "getBranch", pull_number |-> 0, branch |-> b, page |-> 0,
                     sha |-> "", merge_method |-> ""]
\* pulls.merge called without `sha`.
MergeCallWithoutSha(p) ==
    [op |-> "merge", pull_number |-> p.number, branch |-> "", page |-> 0,
     sha |-> Undefined,
     merge_method |-> IF preferredMergeOption # "" THEN preferredMergeOption ELSE Undefined]

MergeCall(p) == [op |-> "merge", pull_number |-> p.number, branch |-> "", page |-> 0,
                 sha |-> p.head_sha,
                 merge_method |-> IF preferredMergeOption # "" THEN preferredMergeOption
                                  ELSE Undefined]

\* What the history of the run keeps of a call.
Issued(c) == [c EXCEPT !.sha = ""]

Line(level, msg, n) == [level |-> level, msg |-> msg, pr |-> n]

Init ==
    /\ requiredLabels \in {ParseList(i) : i \in RequiredLabelsInputs}
    /\ authors \in {ParseList(i) : i \in AuthorsInputs}
    /\ preferredMergeOption \in PreferredMergeOptionInputs
    /\ dryRun \in {ToLowerCase(i) = "true" : i \in DryRunInputs}
    /\ context \in Contexts
    /\ pc = "start"
    /\ todo = <<>>
    /\ page = NoPage
    /\ listed = <<>>
    /\ pr = NoPr
    /\ cache = EmptyCache
    /\ branchData = NoBranch
    /\ inflight = {}
    /\ calls = <<>>
    /\ processed = <<>>
    /\ announced = <<>>
    /\ log = <<>>

\* ------------------------------------------------------------- evaluation
\* SkipReason without its `if (pr.draft)`.
SkipReasonNoDraft(p) ==
    LET baseRepo == p.base_repo
        headRepo == IF p.head_repo # Null THEN p.head_repo ELSE ""
        author == IF p.user # Null THEN ToLowerCase(p.user) ELSE ""
    IN  IF baseRepo # headRepo THEN "different repo"
        ELSE IF p.merged_at # Null THEN "already merged"
        ELSE IF p.auto_merge # Null THEN "auto merge is already activated"
        ELSE IF /\ Len(requiredLabels) # 0
                /\ ~(\A label \in Range(requiredLabels) :
                        \E it \in p.labels : ToLowerCase(it) = label)
             THEN "doesn't have all required labels"
        ELSE IF Len(authors) # 0 /\ author \notin Range(authors)
             THEN "author is not one of"
        ELSE IF p.mergeable = "false" THEN "not mergeable"
        ELSE ""

\* SkipReason with `if (pr.draft)` moved before `if (pr.merged_at)`.
SkipReasonDraftFirst(p) ==
    LET baseRepo == p.base_repo
        headRepo == IF p.head_repo # Null THEN p.head_repo ELSE ""
        author == IF p.user # Null THEN ToLowerCase(p.user) ELSE ""
    IN  IF baseRepo # headRepo THEN "different repo"
        ELSE IF p.draft THEN "draft"
        ELSE IF p.merged_at # Null THEN "already merged"
        ELSE IF p.auto_merge # Null THEN "auto merge is already activated"
        ELSE IF /\ Len(requiredLabels) # 0
                /\ ~(\A label \in Range(requiredLabels) :
                        \E it \in p.labels : ToLowerCase(it) = label)
             THEN "doesn't have all required labels"
        ELSE IF Len(authors) # 0 /\ author \notin Range(authors)
             THEN "author is not one of"
        ELSE IF p.mergeable = "false" THEN "not mergeable"
        ELSE ""

\* SkipReason with `if (!pr.mergeable)` for `if (pr.mergeable === false)`.
SkipReasonMergeableMustBeTrue(p) ==
    LET baseRepo == p.base_repo
        headRepo == IF p.head_repo # Null THEN p.head_repo ELSE ""
        author == IF p.user # Null THEN ToLowerCase(p.user) ELSE ""
    IN  IF baseRepo # headRepo THEN "different repo"
        ELSE IF p.merged_at # Null THEN "already merged"
        ELSE IF p.auto_merge # Null THEN "auto merge is already activated"
        ELSE IF p.draft THEN "draft"
        ELSE IF /\ Len(requiredLabels) # 0
                /\ ~(\A label \in Range(requiredLabels) :
                        \E it \in p.labels : ToLowerCase(it) = label)
             THEN "doesn't have all required labels"
        ELSE IF Len(authors) # 0 /\ author \notin Range(authors)
             THEN "author is not one of"
        ELSE IF p.mergeable # "true" THEN "not mergeable"
        ELSE ""

\* SkipReason comparing the label names as they are written.
SkipReasonLabelsCaseSensitive(p) ==
    LET baseRepo == p.base_repo
        headRepo == IF p.head_repo # Null THEN p.head_repo ELSE ""
        author == IF p.user # Null THEN ToLowerCase(p.user) ELSE ""
    IN  IF baseRepo # headRepo THEN "different repo"
        ELSE IF p.merged_at # Null THEN "already merged"
        ELSE IF p.auto_merge # Null THEN "auto merge is already activated"
        ELSE IF p.draft THEN "draft"
        ELSE IF /\ Len(requiredLabels) # 0
                /\ ~(\A label \in Range(requiredLabels) :
                        \E it \in p.labels : it = label)
             THEN "doesn't have all required labels"
        ELSE IF Len(authors) # 0 /\ author \notin Range(authors)
             THEN "author is not one of"
        ELSE IF p.mergeable = "false" THEN "not mergeable"
        ELSE ""

\* SkipReason with an absent head repository taken for the base repository.
SkipReasonAbsentHeadPasses(p) ==
    LET baseRepo == p.base_repo
        headRepo == IF p.head_repo # Null THEN p.head_repo ELSE baseRepo
        author == IF p.user # Null THEN ToLowerCase(p.user) ELSE ""
    IN  IF baseRepo # headRepo THEN "different repo"
        ELSE IF p.merged_at # Null THEN "already merged"
        ELSE IF p.auto_merge # Null THEN "auto merge is already activated"
        ELSE IF p.draft THEN "draft"
        ELSE IF /\ Len(requiredLabels) # 0
                /\ ~(\A label \in Range(requiredLabels) :
                        \E it \in p.labels : ToLowerCase(it) = label)
             THEN "doesn't have all required labels"
        ELSE IF Len(authors) # 0 /\ author \notin Range(authors)
             THEN "author is not one of"
        ELSE IF p.mergeable = "false" THEN "not mergeable"
        ELSE ""

\* processPr, the checks between the snapshot and the branch lookup: the
\* message of the first `return` taken, "" when none is.
SkipReason(p) ==
    LET baseRepo == p.base_repo
        headRepo == IF p.head_repo # Null THEN p.head_repo ELSE ""
        author == IF p.user # Null THEN ToLowerCase(p.user) ELSE ""
    IN  IF baseRepo # headRepo THEN "different repo"
        ELSE IF p.merged_at # Null THEN "already merged"
        ELSE IF p.auto_merge # Null THEN "auto merge is already activated"
        ELSE IF p.draft THEN "draft"
        ELSE IF /\ Len(requiredLabels) # 0
                /\ ~(\A label \in Range(requiredLabels) :
                        \E it \in p.labels : ToLowerCase(it) = label)
             THEN "doesn't have all required labels"
        ELSE IF Len(authors) # 0 /\ author \notin Range(authors)
             THEN "author is not one of"
        ELSE IF p.mergeable = "false" THEN "not mergeable"
        ELSE ""

\* What getBranch answers with: protection.enabled and
\* protection.required_status_checks?.checks (Null when a link is absent).
BranchData == [enabled : BOOLEAN, checks : {Null, <<>>, <<"ci">>}]

\* The fact computed from protection.enabled alone.
HasRequiredChecksEnabledOnly(branch) == branch.enabled

\* doesBranchHaveRequiredChecks, the fact computed from the answer.
HasRequiredChecks(branch) ==
    /\ branch.enabled
    /\ branch.checks # Null
    /\ Len(branch.checks) # 0

\* A lookup that never finds its entry.
CacheHasNever(branchName) == FALSE

\* doesBranchHaveRequiredChecksCache.has(branchName)
CacheHas(branchName) == branchName \in DOMAIN cache

\* The cache replaced by a map of the one new entry.
CacheSetAlone(branchName, value) == [b \in {branchName} |-> value]

\* doesBranchHaveRequiredChecksCache.set(branchName, hasRequiredChecks)
CacheSet(branchName, value) ==
    [b \in DOMAIN cache \cup {branchName} |-> IF b = branchName THEN value ELSE cache[b]]

\* The merge call without its `if (!dryRun)`.
CallsMergeAlways == TRUE

\* `if (!dryRun)` before pulls.merge
CallsMerge == ~dryRun

\* Decide with pulls.merge called and not awaited.
DecideMergeNotAwaited(p, hasRequiredChecks, pending, lines) ==
    IF ~hasRequiredChecks
    THEN /\ log' = Append(lines, Line("warning", "no required status checks", p.number))
         /\ announced' = announced
         /\ pc' = "loop"
         /\ inflight' = pending
         /\ calls' = calls
    ELSE /\ log' = Append(lines, Line("warning", "Merging", p.number))
         /\ announced' = Append(announced, p.number)
         /\ pc' = "loop"
         /\ IF CallsMerge
            THEN /\ inflight' = pending \cup {MergeCall(p)}
                 /\ calls' = Append(calls, Issued(MergeCall(p)))
            ELSE /\ inflight' = pending
                 /\ calls' = calls

\* processPr from the answer of doesBranchHaveRequiredChecks to its end or
\* to the merge call; `pending` is what stays in flight, `lines` what the
\* group has written.
Decide(p, hasRequiredChecks, pending, lines) ==
    IF ~hasRequiredChecks
    THEN /\ log' = Append(lines, Line("warning", "no required status checks", p.number))
         /\ announced' = announced
         /\ pc' = "loop"
         /\ inflight' = pending
         /\ calls' = calls
    ELSE /\ log' = Append(lines, Line("warning", "Merging", p.number))
         /\ announced' = Append(announced, p.number)
         /\ IF CallsMerge
            THEN /\ inflight' = pending \cup {MergeCall(p)}
                 /\ calls' = Append(calls, Issued(MergeCall(p)))
                 /\ pc' = "merge"
            ELSE /\ inflight' = pending
                 /\ calls' = calls
                 /\ pc' = "loop"

\* processPr, from the snapshot `p` to the first suspension point or to its
\* end; the group has written nothing yet.
Evaluate(p, pending) ==
    /\ pr' = p
    /\ LET reason == SkipReason(p)
       IN  IF reason # ""
           THEN /\ log' = <<Line("warning", reason, p.number)>>
                /\ pc' = "loop"
                /\ inflight' = pending
                /\ UNCHANGED <<cache, calls, announced>>
           ELSE IF CacheHas(p.base_ref)
           THEN /\ Decide(p, cache[p.base_ref], pending, <<>>)
                /\ UNCHANGED cache
           ELSE /\ inflight' = pending \cup {GetBranchCall(p.base_ref)}
                /\ calls' = Append(calls, GetBranchCall(p.base_ref))
                /\ pc' = "getBranch"
                /\ log' = <<>>
                /\ UNCHANGED <<cache, announced>>

\* pulls.get answers; processPr has its snapshot and goes on to the next
\* suspension point.
GetResponse ==
    /\ pc = "get"
    /\ \E c \in inflight :
          /\ c.op = "get"
          /\ \E p \in GetSnapshots(c.pull_number) : Evaluate(p, inflight \ {c})
    /\ UNCHANGED <<config, context, todo, page, listed, branchData, processed>>

\* repos.getBranch answers; doesBranchHaveRequiredChecks stores the fact and
\* processPr goes on.
GetBranchResponse ==
    /\ pc = "getBranch"
    /\ \E c \in inflight, branch \in BranchData :
          /\ c.op = "getBranch"
          /\ branchData' = branch
          /\ cache' = CacheSet(c.branch, HasRequiredChecks(branch))
          /\ Decide(pr, HasRequiredChecks(branch), inflight \ {c}, log)
    /\ UNCHANGED <<config, context, todo, page, listed, pr, processed>>

\* pulls.merge answers; processPr returns.
MergeResponse ==
    /\ pc = "merge"
    /\ \E c \in inflight :
          /\ c.op = "merge"
          /\ inflight' = inflight \ {c}
    /\ pc' = "loop"
    /\ branchData' = NoBranch
    /\ UNCHANGED <<config, context, todo, page, listed, pr, cache, calls, processed,
                   announced, log>>

\* ------------------------------------------------------------------ loops
\* processAllPrs: the iterator is asked for its first page.
ProcessAllPrs ==
    /\ inflight' = inflight \cup {ListCall(1)}
    /\ calls' = Append(calls, ListCall(1))
    /\ pc' = "list"
    /\ UNCHANGED <<todo, page, pr, cache, branchData, processed, announced, log>>

\* response.data of one page: open PRs, newest first (the order pulls.list
\* sorts by when it is given none), each at most once.
Pages ==
    {d \in UNION {[1..k -> PrNumbers] : k \in 0..Cardinality(PrNumbers)} :
        \A i, j \in DOMAIN d : i < j => d[i] > d[j]}

\* pulls.list answers with a page; `next` is the Link header's rel="next",
\* which a page has only when it holds entries and more entries follow it.
\* PRs opened between two calls push the older ones down the list, so a page
\* may begin with the entry the page before ended with.
ListResponse ==
    /\ pc = "list"
    /\ \E c \in inflight, data \in Pages, next \in BOOLEAN :
          /\ c.op = "list"
          /\ Len(listed) + Len(data) <= MaxListed
          /\ next => data # <<>> /\ Len(listed) + Len(data) < MaxListed
          /\ listed # <<>> /\ data # <<>> => listed[Len(listed)] >= data[1]
          /\ inflight' = inflight \ {c}
          /\ todo' = data
          /\ listed' = listed \o data
          /\ page' = [number |-> c.page, next |-> next]
    /\ pc' = "loop"
    /\ UNCHANGED <<config, context, pr, cache, branchData, calls, processed, announced,
                   log>>

IsCheckRun == context.eventName = "check_run"

\* pulls.list called once, without octokit.paginate.
MorePagesNever == FALSE

\* The iterator of octokit.paginate has a page left to ask for.
MorePages == page.next

\* processAllPrs: `for (const pr of response.data) await processPr(pr)`, up
\* to the first suspension point of processPr.  The entry's fields are read
\* by processPr only, so they are drawn here.
ProcessListedPr ==
    /\ pc = "loop"
    /\ ~IsCheckRun
    /\ todo # <<>>
    /\ todo' = Tail(todo)
    /\ processed' = Append(processed, Head(todo))
    /\ \E p \in ListSnapshots(Head(todo)) : Evaluate(p, inflight)
    /\ branchData' = NoBranch
    /\ UNCHANGED <<config, context, page, listed>>

\* processAllPrs: the page is exhausted and the iterator asks for the next.
NextPage ==
    /\ pc = "loop"
    /\ ~IsCheckRun
    /\ todo = <<>>
    /\ MorePages
    /\ inflight' = inflight \cup {ListCall(page.number + 1)}
    /\ calls' = Append(calls, ListCall(page.number + 1))
    /\ pc' = "list"
    /\ pr' = NoPr
    /\ branchData' = NoBranch
    /\ UNCHANGED <<config, context, todo, page, listed, cache, processed, announced, log>>

\* processCheckRunCompletedEvent: `for (const prMini of ...) await
\* processPr(prMini.number)`; processPr asks for the PR.
ProcessCheckRunPr ==
    /\ pc = "loop"
    /\ IsCheckRun
    /\ todo # <<>>
    /\ todo' = Tail(todo)
    /\ processed' = Append(processed, Head(todo))
    /\ log' = <<>>
    /\ pr' = NoPr
    /\ branchData' = NoBranch
    /\ inflight' = inflight \cup {GetCall(Head(todo))}
    /\ calls' = Append(calls, GetCall(Head(todo)))
    /\ pc' = "get"
    /\ UNCHANGED <<config, context, page, listed, cache, announced>>

\* The loop of the handler ends and run() returns.
Finish ==
    /\ pc = "loop"
    /\ todo = <<>>
    /\ IsCheckRun \/ ~MorePages
    /\ pc' = "done"
    /\ pr' = NoPr
    /\ branchData' = NoBranch
    /\ UNCHANGED <<config, context, todo, page, listed, cache, inflight, calls, processed,
                   announced, log>>

\* ---------------------------------------------------------------- routing
\* CheckRunSkip without the check of the run's own id.
CheckRunSkipNotOwn(event) ==
    IF event.action # "completed" THEN "Skipping check run by action"
    ELSE IF (IF event.conclusion # Null THEN event.conclusion ELSE "")
                \notin {"success", "skipped"}
         THEN "Skipping check run by conclusion"
    ELSE ""

\* CheckRunSkip without the check of the conclusion.
CheckRunSkipAnyConclusion(event) ==
    IF event.id = context.runId THEN "Skipping current check run"
    ELSE IF event.action # "completed" THEN "Skipping check run by action"
    ELSE ""

\* processCheckRunCompletedEvent: the debug message of the early return
\* taken, "" when the loop is entered.
CheckRunSkip(event) ==
    IF event.id = context.runId THEN "Skipping current check run"
    ELSE IF event.action # "completed" THEN "Skipping check run by action"
    ELSE IF (IF event.conclusion # Null THEN event.conclusion ELSE "")
                \notin {"success", "skipped"}
         THEN "Skipping check run by conclusion"
    ELSE ""

\* processCheckRunCompletedEvent rescanning every open PR instead.
ProcessCheckRunCompletedEventRescan(event) ==
    IF CheckRunSkip(event) # ""
    THEN /\ log' = Append(log, Line("debug", CheckRunSkip(event), 0))
         /\ pc' = "done"
         /\ UNCHANGED <<todo, page, pr, cache, branchData, inflight, calls,
                        processed, announced>>
    ELSE ProcessAllPrs

ProcessCheckRunCompletedEvent(event) ==
    IF CheckRunSkip(event) # ""
    THEN /\ log' = Append(log, Line("debug", CheckRunSkip(event), 0))
         /\ pc' = "done"
         /\ UNCHANGED <<todo, page, pr, cache, branchData, inflight, calls,
                        processed, announced>>
    ELSE /\ todo' = event.pull_requests
         /\ pc' = "loop"
         /\ UNCHANGED <<page, pr, cache, branchData, inflight, calls, processed,
                        announced, log>>

\* processDeploymentStatusCreated without its early return.
DeploymentStatusSkipNever(event) == FALSE

\* processDeploymentStatusCreated: whether the early return is taken.
DeploymentStatusSkip(event) == event.state # "success"

ProcessDeploymentStatusCreated(event) ==
    IF DeploymentStatusSkip(event)
    THEN /\ log' = Append(log, Line("debug", "Skipping deployment status by state", 0))
         /\ pc' = "done"
         /\ UNCHANGED <<todo, page, pr, cache, branchData, inflight, calls,
                        processed, announced>>
    ELSE ProcessAllPrs

\* Handler with the pull_request branch calling processAllPrs.
HandlerPullRequestRescans(eventName) ==
    IF eventName = "branch_protection_rule" THEN "processAllPrs"
    ELSE IF eventName = "check_run" THEN "processCheckRunCompletedEvent"
    ELSE IF eventName = "deployment_status" THEN "processDeploymentStatusCreated"
    ELSE IF eventName = "pull_request" THEN "processAllPrs"
    ELSE IF eventName = "pull_request_review" THEN "unsupported"
    ELSE IF eventName = "push" THEN "processAllPrs"
    ELSE IF eventName = "schedule" THEN "processAllPrs"
    ELSE IF eventName = "status" THEN "unsupported"
    ELSE IF eventName = "workflow_dispatch" THEN "processAllPrs"
    ELSE "unsupported"

\* run(): the branch of the if-chain taken for an event name.
Handler(eventName) ==
    IF eventName = "branch_protection_rule" THEN "processAllPrs"
    ELSE IF eventName = "check_run" THEN "processCheckRunCompletedEvent"
    ELSE IF eventName = "deployment_status" THEN "processDeploymentStatusCreated"
    ELSE IF eventName = "pull_request" THEN "unsupported"
    ELSE IF eventName = "pull_request_review" THEN "unsupported"
    ELSE IF eventName = "push" THEN "processAllPrs"
    ELSE IF eventName = "schedule" THEN "processAllPrs"
    ELSE IF eventName = "status" THEN "unsupported"
    ELSE IF eventName = "workflow_dispatch" THEN "processAllPrs"
    ELSE "unsupported"

\* run(), up to the first suspension point of the handler.
Run ==
    /\ pc = "start"
    /\ LET h == Handler(context.eventName)
       IN  IF h = "processAllPrs" THEN ProcessAllPrs
           ELSE IF h = "processCheckRunCompletedEvent"
                THEN ProcessCheckRunCompletedEvent(context.payload)
           ELSE IF h = "processDeploymentStatusCreated"
                THEN ProcessDeploymentStatusCreated(context.payload)
           ELSE /\ log' = Append(log, Line("warning", "Unsupported event", 0))
                /\ pc' = "done"
                /\ UNCHANGED <<todo, page, pr, cache, branchData, inflight, calls,
                        processed, announced>>
    /\ UNCHANGED <<config, context, listed>>

\* A remote call rejects and processPr's caller goes on with the next PR,
\* the error reported.
RemoteFailureSwallowed ==
    /\ pc \in {"list", "get", "getBranch", "merge"}
    /\ \E c \in inflight :
          /\ inflight' = inflight \ {c}
          /\ log' = Append(log, Line("setFailed", c.op, c.pull_number))
    /\ pc' = "loop"
    /\ pr' = NoPr
    /\ branchData' = NoBranch
    /\ UNCHANGED <<config, context, todo, page, listed, cache, calls, processed, announced>>

\* A rejected pulls.merge is issued again, any other rejected call ends the
\* run.
RemoteFailureRetriesMerge ==
    /\ pc \in {"list", "get", "getBranch", "merge"}
    /\ \E c \in inflight :
          IF c.op = "merge"
          THEN /\ calls' = Append(calls, Issued(c))
               /\ UNCHANGED <<inflight, log, pc, pr, branchData>>
          ELSE /\ inflight' = inflight \ {c}
               /\ log' = Append(log, Line("setFailed", c.op, c.pull_number))
               /\ pc' = "failed"
               /\ pr' = NoPr
               /\ branchData' = NoBranch
               /\ calls' = calls
    /\ UNCHANGED <<config, context, todo, page, listed, cache, processed, announced>>

\* A remote call rejects: the error leaves every await up to run()'s catch,
\* which calls core.setFailed and rethrows.
RemoteFailure ==
    /\ pc \in {"list", "get", "getBranch", "merge"}
    /\ \E c \in inflight :
          /\ inflight' = inflight \ {c}
          /\ log' = Append(log, Line("setFailed", c.op, c.pull_number))
    /\ pc' = "failed"
    /\ pr' = NoPr
    /\ branchData' = NoBranch
    /\ UNCHANGED <<config, context, todo, page, listed, cache, calls, processed, announced>>

Next ==
    \/ Run
    \/ ListResponse
    \/ ProcessListedPr
    \/ NextPage
    \/ ProcessCheckRunPr
    \/ GetResponse
    \/ GetBranchResponse
    \/ MergeResponse
    \/ Finish
    \/ RemoteFailure

Spec == Init /\ [][Next]_vars

\* ------------------------------------------------------------ properties
\* The eight admission predicates of the evaluator, by number; the eighth is
\* read off a cache `c`.
Passes(k, p, c) ==
    CASE k = 1 -> p.head_repo = p.base_repo
      [] k = 2 -> p.merged_at = Null
      [] k = 3 -> p.auto_merge = Null
      [] k = 4 -> p.draft = FALSE
      [] k = 5 -> \A l \in Range(requiredLabels) : l \in {ToLowerCase(x) : x \in p.labels}
      [] k = 6 -> \/ authors = <<>>
                  \/ p.user # Null /\ \E a \in Range(authors) : a = ToLowerCase(p.user)
      [] k = 7 -> p.mergeable # "false"
      [] k = 8 -> p.base_ref \in DOMAIN c /\ c[p.base_ref] = TRUE

Failing(p, c) == {k \in 1..8 : ~Passes(k, p, c)}

Lowest(S) == CHOOSE k \in S : \A j \in S : k <= j

ReasonOf(k) ==
    CASE k = 1 -> "different repo"
      [] k = 2 -> "already merged"
      [] k = 3 -> "auto merge is already activated"
      [] k = 4 -> "draft"
      [] k = 5 -> "doesn't have all required labels"
      [] k = 6 -> "author is not one of"
      [] k = 7 -> "not mergeable"
      [] k = 8 -> "no required status checks"

MergesOf(cs) == SelectSeq(cs, LAMBDA c : c.op = "merge")
Warnings == SelectSeq(log, LAMBDA l : l.level = "warning")
SkipLines == SelectSeq(Warnings, LAMBDA l : l.msg # "Merging")

\* C1: a merge call is in flight only for the PR being processed, whose
\* evaluated snapshot passes all eight predicates (the eighth per the cached
\* fact), and no skip reason was written for it; every merge call ever issued
\* is for a PR announced as merging.
C1_MergeOnlyIfAdmitted ==
    /\ \A c \in inflight :
          c.op = "merge" =>
              /\ pr # NoPr
              /\ c.pull_number = pr.number
              /\ Failing(pr, cache) = {}
              /\ SkipLines = <<>>
    /\ LET merges == MergesOf(calls)
       IN  /\ Len(merges) <= Len(announced)
           /\ \A i \in DOMAIN merges :
                 \E j \in DOMAIN announced : announced[j] = merges[i].pull_number

C1_Witness ==
    /\ \E c \in inflight : c.op = "merge"
    /\ requiredLabels # <<>>
    /\ authors # <<>>
    /\ Len(processed) = 2

\* C2: once processPr has gone past its checks, the group of a denied PR
\* holds one warning, the skip reason of the lowest-numbered failing
\* predicate, and no merge call follows it; the group of any other PR holds
\* the one `Merging` line. The branch is looked up only for a PR that passed
\* the seven predicates before it.
C2_FirstFailingReason ==
    pr # NoPr =>
        LET failing == Failing(pr, cache)
            warnings == Warnings
        IN  /\ pc \in {"loop", "merge"} => warnings # <<>>
            /\ pc = "getBranch" => failing = {8} /\ warnings = <<>>
            /\ warnings # <<>> =>
                  /\ warnings = <<Line("warning",
                                       IF failing = {} THEN "Merging"
                                       ELSE ReasonOf(Lowest(failing)),
                                       pr.number)>>
                  /\ failing # {} => pc # "merge"

C2_Witness ==
    /\ pc = "loop"
    /\ pr # NoPr
    /\ pr.merged_at # Null
    /\ pr.draft
    /\ log = <<Line("warning", "already merged", pr.number)>>

LookupsOf(b) == {i \in DOMAIN calls : calls[i].op = "getBranch" /\ calls[i].branch = b}

\* C3: no branch is looked up twice in a run, however many PRs ask for it;
\* the verdict of a PR that passed the first seven predicates is the entry of
\* its base branch; and an entry, once stored, keeps its value, whatever the
\* remote would answer later.
C3_OneLookupPerBranch ==
    /\ [](/\ \A b \in Branches : Cardinality(LookupsOf(b)) <= 1
          /\ \A b \in DOMAIN cache : LookupsOf(b) # {}
          /\ (pr # NoPr /\ Failing(pr, cache) \subseteq {8} /\ Warnings # <<>>) =>
                /\ pr.base_ref \in DOMAIN cache
                /\ cache[pr.base_ref] <=> Warnings[1].msg = "Merging")
    /\ [][\A b \in DOMAIN cache : b \in DOMAIN cache' /\ cache'[b] = cache[b]]_vars

C3_Witness ==
    /\ pc = "done"
    /\ \E b \in Branches : Cardinality(LookupsOf(b)) = 1 /\ DOMAIN cache = {b}
    /\ Len(announced) = 2

IssuesMerge == MergesOf(calls) # <<>> \/ \E c \in inflight : c.op = "merge"

\* C4: in a dry run no merge call is ever issued, and every PR that passes
\* all eight predicates is still announced with `Merging PR #n`.
C4_DryRunNeverMerges ==
    dryRun =>
        /\ ~IssuesMerge
        /\ pc # "merge"
        /\ (pr # NoPr /\ Failing(pr, cache) = {}) =>
              /\ Warnings = <<Line("warning", "Merging", pr.number)>>
              /\ announced # <<>>
              /\ announced[Len(announced)] = pr.number

C4_Witness ==
    /\ dryRun
    /\ pc = "done"
    /\ Len(announced) = 2

IsBulk == context.eventName \in BulkEvents

\* A step that ends the checks of a PR with a verdict.
Verdict == pc \in {"loop", "get", "getBranch"} /\ pc' \in {"loop", "merge"}

\* C5, as stated: a bulk run that no remote failure ends has processed every
\* listed entry once, in order, up to the last page, and has issued as many
\* merge calls as PRs passed all predicates.
C5_AsStated ==
    IsBulk /\ pc = "done" =>
        /\ processed = listed
        /\ ~page.next
        /\ Len(MergesOf(calls)) = Len(announced)

\* C5, amended: the same, the merge calls being as many as the PRs that
\* passed all predicates when dry-run is off, and none when it is on; the
\* PRs counted are those whose verdict found no predicate failing.
C5_BulkProcessesEveryListedPr ==
    /\ [](IsBulk /\ pc = "done" =>
            /\ processed = listed
            /\ ~page.next
            /\ Len(MergesOf(calls)) = IF dryRun THEN 0 ELSE Len(announced))
    /\ [][IsBulk =>
            announced' = IF Verdict /\ Failing(pr', cache') = {}
                         THEN Append(announced, pr'.number)
                         ELSE announced]_vars

C5_Witness ==
    /\ IsBulk
    /\ pc = "done"
    /\ ~dryRun
    /\ Len(listed) = 2
    /\ Len(announced) = 1
    /\ Len(MergesOf(calls)) = 1
    /\ log = <<Line("warning", "draft", listed[2])>>

ActingCheckRun ==
    /\ IsCheckRun
    /\ context.payload.id # context.runId
    /\ context.payload.action = "completed"
    /\ context.payload.conclusion \in {"success", "skipped"}

NumbersOf(cs) == [i \in DOMAIN cs |-> cs[i].pull_number]
GetsOf(cs) == SelectSeq(cs, LAMBDA c : c.op = "get")

\* C6: a passing check_run of another check processes the PRs of its
\* payload, in the payload's order: one pulls.get per entry, the snapshot
\* evaluated being the one fetched; no list call, no call for another PR.
C6_CheckRunProcessesPayloadPrs ==
    ActingCheckRun /\ pc # "start" =>
        LET prs == context.payload.pull_requests
            n == Len(processed)
        IN  /\ n <= Len(prs)
            /\ processed = SubSeq(prs, 1, n)
            /\ NumbersOf(GetsOf(calls)) = processed
            /\ \A i \in DOMAIN calls :
                  /\ calls[i].op # "list"
                  /\ calls[i].op = "merge" =>
                        \E j \in 1..n : processed[j] = calls[i].pull_number
            /\ pr # NoPr => pr.number = processed[n] /\ pr.mergeable # Undefined
            /\ pc \in {"getBranch", "merge"} => pr # NoPr
            /\ pc = "done" => processed = prs

C6_Witness ==
    /\ ActingCheckRun
    /\ pc = "done"
    /\ context.payload.pull_requests = <<2, 1>>
    /\ Len(MergesOf(calls)) = 1

\* Nothing was done for any PR, and the run has not failed.
NoPrTouched ==
    /\ calls = <<>>
    /\ inflight = {}
    /\ processed = <<>>
    /\ pr = NoPr
    /\ pc \in {"start", "done"}
    /\ \A i \in DOMAIN log : log[i].level # "setFailed"

\* C7: a check_run whose action is not `completed`, or whose conclusion is
\* neither success nor skipped, touches no PR, issues no remote call and does
\* not fail the run.
C7_NonPassingCheckRunIsNoOp ==
    /\ IsCheckRun
    /\ \/ context.payload.action # "completed"
       \/ context.payload.conclusion \notin {"success", "skipped"}
    => NoPrTouched

C7_Witness ==
    /\ IsCheckRun
    /\ pc = "done"
    /\ context.payload.id # context.runId
    /\ context.payload.action = "completed"
    /\ context.payload.conclusion = "failure"
    /\ context.payload.pull_requests # <<>>

\* C8: a check_run of the run's own check touches no PR, whatever its
\* action, conclusion and pull_requests.
C8_OwnCheckRunIsNoOp ==
    IsCheckRun /\ context.payload.id = context.runId => NoPrTouched

C8_Witness ==
    /\ IsCheckRun
    /\ pc = "done"
    /\ context.payload.id = context.runId
    /\ context.payload.action = "completed"
    /\ context.payload.conclusion = "success"
    /\ context.payload.pull_requests # <<>>

\* C9: an event of any other kind issues no remote call, and the run ends
\* with one warning and no failure.
C9_UnsupportedEventIsNoOp ==
    context.eventName \notin BulkEvents \cup {"check_run", "deployment_status"} =>
        /\ NoPrTouched
        /\ pc = "done" => log = <<Line("warning", "Unsupported event", 0)>>

C9_Witness ==
    /\ context.eventName = "pull_request"
    /\ pc = "done"

\* C10: a deployment_status event runs the bulk driver when its state is
\* success, and only then; in any other state it touches no PR.
C10_DeploymentStatusSuccessOnly ==
    context.eventName = "deployment_status" =>
        IF context.payload.state = "success"
        THEN pc # "start" =>
                /\ calls # <<>>
                /\ calls[1] = ListCall(1)
                /\ pc = "done" => processed = listed /\ ~page.next
        ELSE NoPrTouched

C10_Witness ==
    /\ context.eventName = "deployment_status"
    /\ context.payload.state = "success"
    /\ pc = "done"
    /\ Len(processed) = 2

\* The answer just received says the branch has no required status checks.
AnsweredNoChecks ==
    \/ ~branchData.enabled
    \/ branchData.checks = Null
    \/ branchData.checks = <<>>

\* C11: a lookup stores `true` exactly for a branch whose protection is
\* enabled with a non-empty list of required checks; a PR that fails nothing
\* but the required checks of its base branch is denied with the reason
\* citing them and is not merged; and a merge call is issued only for a PR
\* whose base branch has `true` stored.
C11_NoRequiredChecksDenies ==
    /\ branchData # NoBranch =>
          /\ pr # NoPr
          /\ pr.base_ref \in DOMAIN cache
          /\ cache[pr.base_ref] = ~AnsweredNoChecks
    /\ (pr # NoPr /\ pr.base_ref \in DOMAIN cache /\ Failing(pr, cache) = {8}) =>
          /\ pc = "loop"
          /\ Warnings = <<Line("warning", "no required status checks", pr.number)>>
    /\ \A c \in inflight :
          c.op = "merge" => pr.base_ref \in DOMAIN cache /\ cache[pr.base_ref]

C11_Witness ==
    /\ branchData # NoBranch
    /\ branchData.enabled
    /\ branchData.checks # Null
    /\ branchData.checks = <<>>
    /\ pc = "loop"
    /\ requiredLabels # <<>>
    /\ authors # <<>>
    /\ Len(processed) = 2
    /\ announced = <<>>
    /\ log = <<Line("warning", "no required status checks", pr.number)>>

\* C12: a PR whose head repository is another repository, or is absent, is
\* denied as coming from a different repository whatever else it has and
\* whatever the policy is: while it is in scope its group holds that one
\* warning and processPr has returned with no call pending, so that neither
\* a branch lookup nor a merge call was issued for it.
C12_ForkIsDenied ==
    (pr # NoPr /\ pr.head_repo # pr.base_repo) =>
        /\ pc = "loop"
        /\ log = <<Line("warning", "different repo", pr.number)>>
        /\ inflight = {}
        /\ branchData = NoBranch

C12_Witness ==
    /\ pr # NoPr
    /\ pr.head_repo = Null
    /\ pr.labels = {"Ready", "approved"}
    /\ pr.user = "Alice"
    /\ pr.base_ref \in DOMAIN cache
    /\ cache[pr.base_ref]
    /\ ~dryRun
    /\ pc = "loop"

\* The required labels that no label of `p` matches, letter case aside.
MissingLabels(p) ==
    {l \in Range(requiredLabels) : \A x \in p.labels : ToLowerCase(x) # ToLowerCase(l)}

\* C13: a PR that passed the four predicates before the labels is denied
\* for its labels exactly when required labels are configured and one of
\* them has no case-insensitive match among the PR's labels; the denial
\* ends its processing with no call.
C13_LabelPredicate ==
    (pr # NoPr /\ \A k \in 1..4 : Passes(k, pr, cache)) =>
        LET denied == log = <<Line("warning", "doesn't have all required labels",
                                   pr.number)>>
        IN  /\ denied <=> (requiredLabels # <<>> /\ MissingLabels(pr) # {})
            /\ denied => pc = "loop" /\ inflight = {}
            /\ requiredLabels = <<>> =>
                  \A i \in DOMAIN log : log[i].msg # "doesn't have all required labels"

C13_Witness ==
    /\ requiredLabels = <<"ready", "approved">>
    /\ pr # NoPr
    /\ pr.labels = {"Ready"}
    /\ pr.user = "Alice"
    /\ pr.base_ref \in DOMAIN cache
    /\ cache[pr.base_ref]
    /\ log = <<Line("warning", "doesn't have all required labels", pr.number)>>

SetFailedLines == SelectSeq(log, LAMBDA l : l.level = "setFailed")

\* C14: setFailed is called only for a remote call that failed, and once;
\* the run has then ended as failed with nothing in flight, the failed call
\* being the last one issued; and the run takes no step after that: no
\* retry, no further call, no second failure signal.
C14_RemoteFailureEndsRun ==
    /\ [](/\ pc # "failed" => SetFailedLines = <<>>
          /\ pc = "failed" =>
                /\ Len(SetFailedLines) = 1
                /\ log[Len(log)].level = "setFailed"
                /\ inflight = {}
                /\ calls # <<>>
                /\ calls[Len(calls)].op = log[Len(log)].msg
                /\ calls[Len(calls)].pull_number = log[Len(log)].pr)
    /\ [][pc # "failed"]_vars

C14_Witness ==
    /\ pc = "failed"
    /\ calls[Len(calls)].op = "merge"
    /\ todo # <<>>
    /\ ~dryRun

\* The run has ended with the failure of a merge call.
MergeFailed == pc = "failed" /\ log[Len(log)].msg = "merge"

\* C15, as stated: when a merge call has failed, the run does not end before
\* the PRs that follow have been processed.
C15_AsStated ==
    MergeFailed => todo = <<>> /\ ~MorePages

\* C15, amended: a failed merge call is not issued again and is reported by
\* the failure signal, which names the PR; it ends the run, so that the PRs
\* that follow are not processed in this run.
C15_FailedMergeEndsRun ==
    /\ [](/\ Len(MergesOf(calls)) <= Len(announced)
          /\ MergeFailed =>
                /\ processed # <<>>
                /\ log = <<Line("warning", "Merging", processed[Len(processed)]),
                           Line("setFailed", "merge", processed[Len(processed)])>>
                /\ calls[Len(calls)].op = "merge"
                /\ calls[Len(calls)].pull_number = processed[Len(processed)]
                /\ inflight = {})
    /\ [][MergeFailed => UNCHANGED <<calls, processed, todo, announced, log>>]_vars
    /\ [][MergeFailed' => UNCHANGED <<calls, processed, todo, announced>>]_vars

C15_Witness ==
    /\ MergeFailed
    /\ Len(processed) = 1
    /\ todo # <<>>
    /\ Len(MergesOf(calls)) = 1

MergeCallsFor(n) == {i \in DOMAIN calls : calls[i].op = "merge" /\ calls[i].pull_number = n}

\* C16: in one run at most one merge call is issued per PR number, also
\* when the payload or the pages of the list name a PR more than once.
C16_AsStated ==
    \A n \in PrNumbers : Cardinality(MergeCallsFor(n)) <= 1

\* C17: at most one remote call is in flight, and it belongs to the PR
\* processed last: between two PRs, and when the next page is asked for,
\* nothing is in flight, and a page is asked for only when every entry of
\* the page before has been handled.
C17_OneCallAtATime ==
    /\ Cardinality(inflight) <= 1
    /\ pc \in {"start", "loop", "done", "failed"} => inflight = {}
    /\ \A c \in inflight :
          /\ pc = c.op
          /\ c.op = "list" => todo = <<>> /\ pr = NoPr /\ processed = listed
          /\ c.op \in {"get", "merge"} =>
                processed # <<>> /\ c.pull_number = processed[Len(processed)]
          /\ c.op = "getBranch" =>
                /\ pr # NoPr
                /\ c.branch = pr.base_ref
                /\ processed # <<>>
                /\ pr.number = processed[Len(processed)]

C17_Witness ==
    /\ pc = "merge"
    /\ Cardinality(inflight) = 1
    /\ Len(processed) = 2
    /\ Len(MergesOf(calls)) = 2
    /\ page.number = 2

\* C18: a merge call names the PR in scope and carries the head sha of the
\* snapshot evaluated for it, which is the list's entry in a bulk run and
\* the fetched PR for a check_run; its merge method is the configured one,
\* or none when the input is empty.
C18_MergeCarriesSnapshotSha ==
    /\ \A c \in inflight :
          c.op = "merge" =>
              /\ pr # NoPr
              /\ c.pull_number = pr.number
              /\ c.sha = pr.head_sha
              /\ c.sha \in {"sha-a", "sha-b"}
              /\ IsCheckRun <=> pr.mergeable # Undefined
    /\ \A i \in DOMAIN calls :
          calls[i].op = "merge" =>
              calls[i].merge_method =
                  IF preferredMergeOption = "" THEN Undefined ELSE preferredMergeOption

C18_Witness ==
    /\ \E c \in inflight : c.op = "merge" /\ c.sha = "sha-b" /\ c.merge_method = "squash"
    /\ ~IsCheckRun
    /\ Len(MergesOf(calls)) = 2

\* C19: a PR that passed the six predicates before mergeability is skipped
\* as not mergeable exactly when its flag is false; with a null flag, or
\* with none (every entry of the list), it goes on to the required checks:
\* its branch is being looked up, or it has the verdict of that predicate.
C19_UnknownMergeabilityPasses ==
    /\ (pr # NoPr /\ ~IsCheckRun) => pr.mergeable = Undefined
    /\ (pr # NoPr /\ \A k \in 1..6 : Passes(k, pr, cache)) =>
          /\ (log = <<Line("warning", "not mergeable", pr.number)>>)
                 <=> pr.mergeable = "false"
          /\ pr.mergeable = "false" => pc = "loop" /\ inflight = {}
          /\ pr.mergeable # "false" =>
                \/ pc = "getBranch" /\ inflight = {GetBranchCall(pr.base_ref)}
                \/ /\ pr.base_ref \in DOMAIN cache
                   /\ log = <<Line("warning",
                                   IF cache[pr.base_ref] THEN "Merging"
                                   ELSE "no required status checks",
                                   pr.number)>>

C19_Witness ==
    /\ pr # NoPr
    /\ pr.mergeable = Null
    /\ requiredLabels # <<>>
    /\ authors # <<>>
    /\ pc = "merge"

\* C20: a branch lookup is in flight only for the PR in scope, which passed
\* the seven predicates before it, and for its base branch, which has no
\* entry; a PR denied by one of the seven causes no lookup; the cache changes
\* only when a lookup is answered, by one new entry for the branch looked
\* up, the entries it had being kept; a lookup that fails changes nothing.
C20_LazyLookupWriteOnceCache ==
    /\ [](/\ \A c \in inflight :
                c.op = "getBranch" =>
                    /\ pr # NoPr
                    /\ \A k \in 1..7 : Passes(k, pr, cache)
                    /\ c.branch = pr.base_ref
                    /\ c.branch \notin DOMAIN cache
          /\ (pr # NoPr /\ \E k \in 1..7 : ~Passes(k, pr, cache)) =>
                pc = "loop" /\ inflight = {} /\ branchData = NoBranch)
    /\ [][cache' # cache =>
            /\ pc = "getBranch"
            /\ pc' # "failed"
            /\ branchData' # NoBranch
            /\ \E c \in inflight :
                  /\ c.op = "getBranch"
                  /\ c \notin inflight'
                  /\ c.branch \notin DOMAIN cache
                  /\ DOMAIN cache' = DOMAIN cache \cup {c.branch}
            /\ \A b \in DOMAIN cache : cache'[b] = cache[b]]_vars
    /\ [][pc' = "failed" => cache' = cache]_vars

C20_Witness ==
    /\ pc = "failed"
    /\ log[Len(log)].msg = "getBranch"
    /\ Cardinality(DOMAIN cache) = 1
    /\ Len(processed) = 2

====
